---- MODULE Spec2Model ----
(***************************************************************************)
(* Model of the Lumina Medical chat widget (src/components/Chatbot.tsx)    *)
(* and of the Gemini service layer (src/services/geminiService.ts).        *)
(*                                                                         *)
(* A JavaScript string is modelled as a sequence of pieces, so that        *)
(* concatenation, trim(), toLowerCase() and includes() are computed        *)
(* rather than assumed.  A piece is one character, or a whole string       *)
(* literal of the source that the program only stores, appends to a list   *)
(* or returns (the greeting, the apology, the fallback texts, the parts    *)
(* of the prompt templates); the texts a user types and the fragments a    *)
(* stream delivers are spelled character by character.                     *)
(***************************************************************************)
EXTENDS Integers, Sequences, FiniteSets

(***************************************************************************)
(* Bounds of the model.                                                    *)
(***************************************************************************)
\* handleSend invocations that pass the guard, per widget instance
MaxSends == 2
\* chunks delivered by the provider over all response streams of a widget
MaxChunks == 2
\* millisecond ticks of Date.now() during the widget's life
MaxClock == 1
\* generateMarketingContent invocations
MaxGmcCalls == 2

(***************************************************************************)
(* Strings.                                                                *)
(***************************************************************************)
Str_empty == << >>
Str_space == << " " >>
Str_book == << "b", "o", "o", "k" >>
Str_Booking_sp == << " ", "B", "o", "o", "k", "i", "n", "g" >>
Str_APPOINTMENT == << "A", "P", "P", "O", "I", "N", "T", "M", "E", "N", "T" >>
Str_booking == << "b", "o", "o", "k", "i", "n", "g" >>
Str_appointment == << "a", "p", "p", "o", "i", "n", "t", "m", "e", "n", "t" >>
Str_Hel == << "H", "e", "l" >>
Str_lo == << "l", "o" >>
Str_init == << "i", "n", "i", "t" >>

\* the texts a user types into the input box
InputTexts == { Str_empty, Str_space, Str_book, Str_Booking_sp, Str_APPOINTMENT }

UpperCase ==
  << "A", "B", "C", "D", "E", "F", "G", "H", "I", "J", "K", "L", "M",
     "N", "O", "P", "Q", "R", "S", "T", "U", "V", "W", "X", "Y", "Z" >>

LowerCase ==
  << "a", "b", "c", "d", "e", "f", "g", "h", "i", "j", "k", "l", "m",
     "n", "o", "p", "q", "r", "s", "t", "u", "v", "w", "x", "y", "z" >>

WhiteSpace == { " ", "\t", "\n" }

Digits == << "0", "1", "2", "3", "4", "5", "6", "7", "8", "9" >>

\* String.prototype.toLowerCase, one character
LowerChar(c) ==
  IF \E k \in 1..Len(UpperCase) : UpperCase[k] = c
  THEN LowerCase[CHOOSE k \in 1..Len(UpperCase) : UpperCase[k] = c]
  ELSE c

\* String.prototype.toLowerCase
ToLowerCase(s) == [k \in 1..Len(s) |-> LowerChar(s[k])]

\* String.prototype.includes
Includes(s, sub) ==
  \E k \in 1..(Len(s) - Len(sub) + 1) : SubSeq(s, k, k + Len(sub) - 1) = sub

RECURSIVE TrimStart(_)
TrimStart(s) ==
  IF s # << >> /\ Head(s) \in WhiteSpace THEN TrimStart(Tail(s)) ELSE s

RECURSIVE TrimEnd(_)
TrimEnd(s) ==
  IF s # << >> /\ s[Len(s)] \in WhiteSpace
  THEN TrimEnd(SubSeq(s, 1, Len(s) - 1))
  ELSE s

\* String.prototype.trim
Trim(s) == TrimEnd(TrimStart(s))

\* Number.prototype.toString (decimal) of a non-negative integer
RECURSIVE ToString(_)
ToString(n) ==
  IF n < 10
  THEN << Digits[n + 1] >>
  ELSE ToString(n \div 10) \o << Digits[(n % 10) + 1] >>

\* concatenation of a sequence of strings, in order
RECURSIVE Concat(_)
Concat(ss) == IF ss = << >> THEN << >> ELSE Head(ss) \o Concat(Tail(ss))

(***************************************************************************)
(* Fixed texts of the widget.                                              *)
(***************************************************************************)
Greeting ==
  << "Hello! I'm Lumi. How can I help you achieve your wellness goals today?"
  >>

ApologyText ==
  << "I'm having trouble connecting right now. Please call our office directly."
  >>

LeadInfo == [interest |-> "General Inquiry (Chat)"]

InitMessage == [id |-> Str_init, sender |-> "bot", text |-> Greeting]

(***************************************************************************)
(* State.                                                                  *)
(***************************************************************************)
VARIABLES
  isOpen,          \* useState(false)
  messages,        \* useState<Message[]>([greeting])
  input,           \* useState('')
  isLoading,       \* useState(false)
  chatSessionRef,  \* useRef(null): NoSession or the handle of a session
  mounted,         \* FALSE once an error thrown by the effect unmounted the widget
  now,             \* Date.now()
  sends,           \* the handleSend invocations that passed the guard
  chunksLeft,      \* chunks the provider may still deliver
  createCalls,     \* history: number of createChatSession() calls
  leadLog,         \* history: the invocations of onLeadCapture (the prop is supplied)
  lastEvent,       \* history: the control that called handleSend last, if the
                   \* last event was such a call
  gmc              \* the generateMarketingContent invocations

widgetVars ==
  << isOpen, messages, input, isLoading, chatSessionRef, mounted, now,
     sends, chunksLeft, createCalls, leadLog, lastEvent >>

vars == << widgetVars, gmc >>

\* chatSessionRef.current === null
NoSession == << >>

\* the handle returned by the n-th call of createChatSession
SessionHandle(n) == << n >>

NoId == << >>

\* the positions of an invocation at which a request or a stream is outstanding
PendingPcs == { "awaitResponse", "streaming" }

Pending(ss) == { k \in 1..Len(ss) : ss[k].pc \in PendingPcs }

\* React ignores a state update of an unmounted component
SetState(new, old) == IF mounted THEN new ELSE old

(***************************************************************************)
(* Chatbot: the effect of useEffect(..., [isOpen, messages]).              *)
(***************************************************************************)
\* NeedsSession without the test of the ref
NeedsSessionWheneverOpen(open, ref) == open

\* line 27: if (isOpen && !chatSessionRef.current)
NeedsSession(open, ref) == open /\ ref = NoSession

\* createChatSession() returns a Chat or throws (ai.chats.create is external)
CreateOutcomes == { "returns", "throws" }

\* the effect, run after a render in which isOpen or messages changed;
\* an error thrown by an effect unmounts the component tree
UseEffect(open) ==
  IF NeedsSession(open, chatSessionRef)
  THEN /\ createCalls' = createCalls + 1
       /\ \E outcome \in CreateOutcomes :
            IF outcome = "returns"
            THEN /\ chatSessionRef' = SessionHandle(createCalls + 1)
                 /\ mounted' = mounted
            ELSE /\ chatSessionRef' = chatSessionRef
                 /\ mounted' = FALSE
  ELSE UNCHANGED << chatSessionRef, createCalls, mounted >>

(***************************************************************************)
(* Chatbot: initial state and user events.                                 *)
(***************************************************************************)
WidgetInit ==
  /\ isOpen = FALSE
  /\ messages = << InitMessage >>
  /\ input = Str_empty
  /\ isLoading = FALSE
  /\ chatSessionRef = NoSession
  /\ mounted = TRUE
  /\ now = 0
  /\ sends = << >>
  /\ chunksLeft = MaxChunks
  /\ createCalls = 0
  /\ leadLog = << >>
  /\ lastEvent = "other"

\* ToggleOpen that also drops the in-flight flag
ToggleOpenCancels ==
  /\ mounted
  /\ isOpen' = ~isOpen
  /\ isLoading' = FALSE
  /\ UseEffect(~isOpen)
  /\ lastEvent' = "other"
  /\ UNCHANGED << messages, input, now, sends, chunksLeft, leadLog, gmc >>

\* line 81: onClick={() => setIsOpen(!isOpen)}, then the effect
ToggleOpen ==
  /\ mounted
  /\ isOpen' = ~isOpen
  /\ UseEffect(~isOpen)
  /\ lastEvent' = "other"
  /\ UNCHANGED << messages, input, isLoading, now, sends, chunksLeft, leadLog, gmc >>

\* line 146: onChange={(e) => setInput(e.target.value)}; the input box is
\* rendered only while the widget is open
SetInput ==
  /\ mounted /\ isOpen
  /\ \E text \in InputTexts :
       /\ text # input
       /\ input' = text
  /\ lastEvent' = "other"
  /\ UNCHANGED << isOpen, messages, isLoading, chatSessionRef, mounted, now,
                  sends, chunksLeft, createCalls, leadLog, gmc >>

\* SendGuard without the trim() call
SendGuardUntrimmed(text, ref) == text # Str_empty /\ ref # NoSession

\* line 38: the condition under which handleSend goes on (does not return)
SendGuard(text, ref) == Trim(text) # Str_empty /\ ref # NoSession

\* lines 37-46: handleSend up to the await of sendMessageStream; `op` is
\* the control that called it
HandleSend(op) ==
  IF SendGuard(input, chatSessionRef)
  THEN /\ Len(sends) < MaxSends
       /\ messages' = SetState(Append(messages,
                         [id |-> ToString(now), sender |-> "user", text |-> input]),
                         messages)
       /\ input' = SetState(Str_empty, input)
       /\ isLoading' = SetState(TRUE, isLoading)
       /\ sends' = Append(sends,
                     [ text |-> input,
                       session |-> chatSessionRef,
                       pc |-> "awaitResponse",
                       botMsgId |-> NoId,
                       botResponseText |-> Str_empty,
                       delivered |-> << >>,
                       alone |-> (Pending(sends) = {}),
                       userAt |-> Len(messages) + 1,
                       botAt |-> 0 ])
       /\ UseEffect(isOpen)
       /\ lastEvent' = op
       /\ UNCHANGED << isOpen, now, chunksLeft, leadLog, gmc >>
  ELSE /\ lastEvent' = op
       /\ UNCHANGED << isOpen, messages, input, isLoading, chatSessionRef,
                       mounted, now, sends, chunksLeft, createCalls, leadLog, gmc >>

\* line 147: onKeyDown={(e) => e.key === 'Enter' && handleSend()}
PressEnter ==
  /\ mounted /\ isOpen
  /\ HandleSend("enter")

\* lines 151-153: the send button, disabled={isLoading || !input.trim()}
ClickSend ==
  /\ mounted /\ isOpen
  /\ ~(isLoading \/ Trim(input) = Str_empty)
  /\ HandleSend("click")

(***************************************************************************)
(* Chatbot: handleSend after the await (lines 46-74), one action per       *)
(* resumption of the async function.                                       *)
(***************************************************************************)
\* a chunk of the response stream: its text may be absent, empty or not
Chunks ==
  { [hasText |-> FALSE, text |-> Str_empty],
    [hasText |-> TRUE, text |-> Str_empty],
    [hasText |-> TRUE, text |-> Str_Hel],
    [hasText |-> TRUE, text |-> Str_lo] }

\* line 56: if (c.text)
Truthy(c) == c.hasText /\ c.text # Str_empty

\* line 59: prev.map(msg => msg.id === botMsgId ? { ...msg, text } : msg)
MapText(prev, botMsgId, text) ==
  [k \in 1..Len(prev) |->
     IF prev[k].id = botMsgId THEN [prev[k] EXCEPT !.text = text] ELSE prev[k]]

\* line 71: the message appended by the catch block
ApologyMessage(t) == [id |-> ToString(t), sender |-> "bot", text |-> ApologyText]

\* LeadHeuristic without the toLowerCase() calls
LeadHeuristicCaseSensitive(text) ==
  \/ Includes(text, Str_booking)
  \/ Includes(text, Str_appointment)

\* line 65: the keyword heuristic on the text the invocation was started with
LeadHeuristic(text) ==
  \/ Includes(ToLowerCase(text), Str_booking)
  \/ Includes(ToLowerCase(text), Str_appointment)

\* lines 46-52: sendMessageStream resolved; the placeholder is appended
ResponseArrives(i) ==
  /\ sends[i].pc = "awaitResponse"
  /\ sends' = [sends EXCEPT ![i].pc = "streaming",
                            ![i].botResponseText = Str_empty,
                            ![i].botMsgId = ToString(now + 1),
                            ![i].botAt = Len(messages) + 1]
  /\ messages' = SetState(Append(messages,
                    [id |-> ToString(now + 1), sender |-> "bot", text |-> Str_empty]),
                    messages)
  /\ UseEffect(isOpen)
  /\ lastEvent' = "other"
  /\ UNCHANGED << isOpen, input, isLoading, now, chunksLeft, leadLog, gmc >>

\* lines 69-74: catch and finally
CatchFinally(i) ==
  /\ sends' = [sends EXCEPT ![i].pc = "failed"]
  /\ messages' = SetState(Append(messages, ApologyMessage(now)), messages)
  /\ isLoading' = SetState(FALSE, isLoading)
  /\ UseEffect(isOpen)
  /\ lastEvent' = "other"
  /\ UNCHANGED << isOpen, input, now, chunksLeft, gmc >>

\* line 46: sendMessageStream rejected
RequestFails(i) ==
  /\ sends[i].pc = "awaitResponse"
  /\ CatchFinally(i)
  /\ UNCHANGED leadLog

\* ChunkArrives with `botResponseText = c.text` for `botResponseText += c.text`
ChunkArrivesReplacing(i) ==
  /\ sends[i].pc = "streaming"
  /\ chunksLeft > 0
  /\ chunksLeft' = chunksLeft - 1
  /\ \E c \in Chunks :
       IF Truthy(c)
       THEN /\ sends' = [sends EXCEPT ![i].botResponseText = c.text,
                                      ![i].delivered = Append(@, c.text)]
            /\ messages' = SetState(MapText(messages, sends[i].botMsgId, c.text),
                                    messages)
            /\ UseEffect(isOpen)
       ELSE /\ sends' = [sends EXCEPT ![i].delivered = Append(@, c.text)]
            /\ UNCHANGED << messages, chatSessionRef, createCalls, mounted >>
  /\ lastEvent' = "other"
  /\ UNCHANGED << isOpen, input, isLoading, now, leadLog, gmc >>

\* lines 54-62: one iteration of the for await loop
ChunkArrives(i) ==
  /\ sends[i].pc = "streaming"
  /\ chunksLeft > 0
  /\ chunksLeft' = chunksLeft - 1
  /\ \E c \in Chunks :
       LET text == sends[i].botResponseText \o c.text
       IN  IF Truthy(c)
           THEN /\ sends' = [sends EXCEPT ![i].botResponseText = text,
                                          ![i].delivered = Append(@, c.text)]
                /\ messages' = SetState(MapText(messages, sends[i].botMsgId, text),
                                        messages)
                /\ UseEffect(isOpen)
           ELSE /\ sends' = [sends EXCEPT ![i].delivered = Append(@, c.text)]
                /\ UNCHANGED << messages, chatSessionRef, createCalls, mounted >>
  /\ lastEvent' = "other"
  /\ UNCHANGED << isOpen, input, isLoading, now, leadLog, gmc >>

\* StreamEnds without the finally block
StreamEndsKeepsLoading(i) ==
  /\ sends[i].pc = "streaming"
  /\ sends' = [sends EXCEPT ![i].pc = "completed"]
  /\ leadLog' = IF LeadHeuristic(sends[i].text)
                THEN Append(leadLog, [send |-> i, info |-> LeadInfo])
                ELSE leadLog
  /\ lastEvent' = "other"
  /\ UNCHANGED << isOpen, messages, input, isLoading, chatSessionRef, mounted,
                  now, chunksLeft, createCalls, gmc >>

\* lines 62-67 and 72-74: the stream is exhausted; heuristic, then finally
StreamEnds(i) ==
  /\ sends[i].pc = "streaming"
  /\ sends' = [sends EXCEPT ![i].pc = "completed"]
  /\ leadLog' = IF LeadHeuristic(sends[i].text)
                THEN Append(leadLog, [send |-> i, info |-> LeadInfo])
                ELSE leadLog
  /\ isLoading' = SetState(FALSE, isLoading)
  /\ lastEvent' = "other"
  /\ UNCHANGED << isOpen, messages, input, chatSessionRef, mounted, now,
                  chunksLeft, createCalls, gmc >>

\* StreamFails with the heuristic run on the way out of a failed stream too
StreamFailsThenNotifies(i) ==
  /\ sends[i].pc = "streaming"
  /\ CatchFinally(i)
  /\ leadLog' = IF LeadHeuristic(sends[i].text)
                THEN Append(leadLog, [send |-> i, info |-> LeadInfo])
                ELSE leadLog

\* line 54: the stream raises while being consumed
StreamFails(i) ==
  /\ sends[i].pc = "streaming"
  /\ CatchFinally(i)
  /\ UNCHANGED leadLog

\* Date.now() advances
Tick ==
  /\ now < MaxClock
  /\ now' = now + 1
  /\ UNCHANGED << isOpen, messages, input, isLoading, chatSessionRef, mounted,
                  sends, chunksLeft, createCalls, leadLog, lastEvent, gmc >>

(***************************************************************************)
(* geminiService: generateMarketingContent (lines 24-39).                  *)
(***************************************************************************)
Str_teeth_whitening ==
  << "teeth whitening" >>

Str_IV ==
  << "IV" >>

BlogPromptHead ==
  << "Write a short, engaging, SEO-friendly blog post intro (approx 150 words) for a medical clinic about: \""
  >>

BlogPromptTail ==
  << "\". Focus on patient benefits and trust." >>

ServicePromptHead ==
  << "Write a compelling 2-sentence service description for: \"" >>

ServicePromptTail ==
  << "\". Focus on luxury, comfort, and results." >>

GenerationFailedText ==
  << "Content generation failed." >>

UnableToGenerateText ==
  << "Unable to generate content at this time. Please try again later."
  >>

Topics == { Str_teeth_whitening, Str_IV }

ContentTypes == { "blog", "service_desc" }

\* lines 26-28: the prompt template chosen by `type`, with the topic spliced in
Prompt(topic, type) ==
  IF type = "blog"
  THEN BlogPromptHead \o topic \o BlogPromptTail
  ELSE ServicePromptHead \o topic \o ServicePromptTail

\* response.text of a resolved generateContent call: absent, empty or a text
GenerateResponses ==
  { [hasText |-> FALSE, text |-> Str_empty],
    [hasText |-> TRUE, text |-> Str_empty],
    [hasText |-> TRUE, text |-> Str_Hel],
    [hasText |-> TRUE, text |-> UnableToGenerateText] }

\* GmcOnResponse without the `|| "Content generation failed."` fallback
GmcOnResponseNoFallback(r) ==
  [ outcome |-> "returned", value |-> r.text ]

\* line 34: return response.text || "Content generation failed."
GmcOnResponse(r) ==
  [ outcome |-> "returned",
    value |-> IF Truthy(r) THEN r.text ELSE GenerationFailedText ]

\* GmcOnError rethrowing what it caught
GmcOnErrorRethrows ==
  [ outcome |-> "raised", value |-> Str_empty ]

\* lines 35-38: the catch block
GmcOnError ==
  [ outcome |-> "returned", value |-> UnableToGenerateText ]

\* lines 24-30: the call, up to the await of ai.models.generateContent
GmcCall ==
  /\ Len(gmc) < MaxGmcCalls
  /\ \E topic \in Topics, type \in ContentTypes :
       gmc' = Append(gmc,
                [ topic |-> topic,
                  type |-> type,
                  prompt |-> Prompt(topic, type),
                  provider |-> "pending",
                  response |-> [hasText |-> FALSE, text |-> Str_empty],
                  promise |-> [outcome |-> "pending", value |-> Str_empty] ])
  /\ UNCHANGED widgetVars

\* line 30: generateContent resolved
GenerateResolves(j) ==
  /\ gmc[j].provider = "pending"
  /\ \E r \in GenerateResponses :
       gmc' = [gmc EXCEPT ![j].provider = "resolved",
                          ![j].response = r,
                          ![j].promise = GmcOnResponse(r)]
  /\ UNCHANGED widgetVars

\* line 30: generateContent rejected
GenerateRejects(j) ==
  /\ gmc[j].provider = "pending"
  /\ gmc' = [gmc EXCEPT ![j].provider = "rejected",
                         ![j].promise = GmcOnError]
  /\ UNCHANGED widgetVars

(***************************************************************************)
(* Specifications.                                                         *)
(***************************************************************************)
Init ==
  /\ WidgetInit
  /\ gmc = << >>

Next ==
  \/ ToggleOpen
  \/ SetInput
  \/ PressEnter
  \/ ClickSend
  \/ Tick
  \/ \E i \in 1..Len(sends) :
       \/ ResponseArrives(i)
       \/ RequestFails(i)
       \/ ChunkArrives(i)
       \/ StreamEnds(i)
       \/ StreamFails(i)

\* the chat widget
Spec == Init /\ [][Next]_vars

\* the promise of sendMessageStream of send i settles
RequestSettles(i) ==
  /\ i \in 1..Len(sends)
  /\ ResponseArrives(i) \/ RequestFails(i)

\* the response stream of send i terminates
StreamTerminates(i) ==
  /\ i \in 1..Len(sends)
  /\ StreamEnds(i) \/ StreamFails(i)

\* the texts typed and the fragments streamed in the fair specification:
\* one blank, one plain and one keyword text; fragments without and with text
TypedAndStreamed ==
  /\ input \in { Str_empty, Str_book, Str_Booking_sp }
  /\ \A i \in 1..Len(sends) :
       \A k \in 1..Len(sends[i].delivered) :
         sends[i].delivered[k] \in { Str_empty, Str_Hel }

\* the chat widget whose provider settles every request and terminates every
\* stream, by completing or failing; the event loop then resumes handleSend
SpecFair ==
  /\ Init
  /\ [][Next /\ TypedAndStreamed']_vars
  /\ \A i \in 1..MaxSends :
       WF_vars(RequestSettles(i)) /\ WF_vars(StreamTerminates(i))

NextGateway ==
  \/ GmcCall
  \/ \E j \in 1..Len(gmc) :
       \/ GenerateResolves(j)
       \/ GenerateRejects(j)

\* the one-shot helper of the service layer
SpecGateway == Init /\ [][NextGateway]_vars

(***************************************************************************)
(* Vocabulary of the properties.                                           *)
(***************************************************************************)
Controls == { "enter", "click" }

\* this step is a call of handleSend (a call that returns early twice in a
\* row from the same control is a stuttering step)
SendCalled ==
  /\ lastEvent' \in Controls
  /\ lastEvent' # lastEvent \/ Len(sends') > Len(sends)

\* this step is a call of handleSend that passes the guard
SendStarted == Len(sends') = Len(sends) + 1

IsBlank(text) == \A k \in 1..Len(text) : text[k] \in { " ", "\t", "\n" }

SameLetter(a, b) ==
  \/ a = b
  \/ \E k \in 1..Len(UpperCase) : { a, b } = { UpperCase[k], LowerCase[k] }

ContainsIgnoringCase(text, word) ==
  \E k \in 0..(Len(text) - Len(word)) :
    \A j \in 1..Len(word) : SameLetter(text[k + j], word[j])

MentionsBooking(text) ==
  \/ ContainsIgnoringCase(text, << "b", "o", "o", "k", "i", "n", "g" >>)
  \/ ContainsIgnoringCase(text,
        << "a", "p", "p", "o", "i", "n", "t", "m", "e", "n", "t" >>)

\* the invocations of the lead-capture callback made by send i
LeadCalls(i) == { k \in 1..Len(leadLog) : leadLog[k].send = i }

IsApology(m) == m.sender = "bot" /\ m.text = ApologyText

(***************************************************************************)
(* C1. A send started while no other send is pending appends exactly one   *)
(* user message carrying the input verbatim; when its stream then          *)
(* completes, the bot message appended for it reads the concatenation of   *)
(* the fragments of that stream in delivery order, and the completion      *)
(* appends nothing (no apology).                                           *)
(***************************************************************************)
C1_SendThenReply ==
  [][ /\ (SendStarted /\ Pending(sends) = {}) =>
           /\ Len(messages') = Len(messages) + 1
           /\ SubSeq(messages', 1, Len(messages)) = messages
           /\ messages'[Len(messages')].sender = "user"
           /\ messages'[Len(messages')].text = input
      /\ \A i \in 1..Len(sends) :
           (sends[i].alone /\ sends[i].pc = "streaming"
                           /\ sends'[i].pc = "completed") =>
             /\ messages' = messages
             /\ messages'[sends[i].userAt].sender = "user"
             /\ messages'[sends[i].userAt].text = sends[i].text
             /\ messages'[sends[i].botAt].sender = "bot"
             /\ messages'[sends[i].botAt].text = Concat(sends[i].delivered)
    ]_vars

(***************************************************************************)
(* C2. A call of handleSend made while a previous send is pending, by the  *)
(* button or by the Enter key, changes neither the message list nor the    *)
(* set of requests issued.                                                 *)
(***************************************************************************)
C2_SendWhilePendingIsNoOp ==
  [][ (SendCalled /\ isLoading /\ Pending(sends) # {}) =>
        (messages' = messages /\ sends' = sends) ]_vars

(***************************************************************************)
(* C3. At most one request or response stream is outstanding at a time.    *)
(***************************************************************************)
C3_SingleFlight == Cardinality(Pending(sends)) <= 1

(***************************************************************************)
(* C4. When a stream fails after delivering a non-empty fragment, the      *)
(* message list ends with the placeholder reading the concatenation of     *)
(* the fragments delivered, immediately followed by one apology message,   *)
(* and the in-flight flag is false.                                        *)
(***************************************************************************)
C4_PartialThenApology ==
  [][ \A i \in 1..Len(sends) :
        (sends[i].pc = "streaming" /\ sends'[i].pc = "failed"
                                  /\ Concat(sends[i].delivered) # Str_empty) =>
          /\ Len(messages') = Len(messages) + 1
          /\ sends[i].botAt = Len(messages)
          /\ messages'[Len(messages)].sender = "bot"
          /\ messages'[Len(messages)].text = Concat(sends[i].delivered)
          /\ IsApology(messages'[Len(messages')])
          /\ ~isLoading'
    ]_vars

(***************************************************************************)
(* C5. A send whose stream completed has called the lead-capture callback  *)
(* exactly once, with {interest: "General Inquiry (Chat)"}, if the text    *)
(* it was started with mentions "booking" or "appointment" in any letter   *)
(* case, and not at all otherwise, whatever is typed afterwards.           *)
(***************************************************************************)
C5_LeadOnKeyword ==
  \A i \in 1..Len(sends) :
    sends[i].pc = "completed" =>
      /\ Cardinality(LeadCalls(i)) = IF MentionsBooking(sends[i].text) THEN 1 ELSE 0
      /\ \A k \in LeadCalls(i) :
           leadLog[k].info = [interest |-> "General Inquiry (Chat)"]

\* one completed send that mentions a keyword in capitals, the input retyped
\* to a text without keyword since, and one completed send without keyword
C5_Witness ==
  /\ input = Str_book
  /\ \E i, j \in 1..Len(sends) :
       /\ sends[i].pc = "completed" /\ sends[j].pc = "completed"
       /\ sends[i].text \in { Str_Booking_sp, Str_APPOINTMENT }
       /\ Cardinality(LeadCalls(i)) = 1
       /\ sends[j].text = Str_book
       /\ LeadCalls(j) = {}

(***************************************************************************)
(* C6. createChatSession is called at most once in the life of a widget:   *)
(* not before the first transition to open, on that transition, and never  *)
(* again; every request goes to the handle it returned.                    *)
(***************************************************************************)
C6_OneSession ==
  /\ [](/\ createCalls <= 1
        /\ chatSessionRef \in { NoSession, SessionHandle(1) }
        /\ \A i \in 1..Len(sends) : sends[i].session = SessionHandle(1))
  /\ [][ /\ createCalls' # createCalls =>
              (createCalls = 0 /\ ~isOpen /\ isOpen')
         /\ (createCalls = 0 /\ ~isOpen /\ isOpen') => createCalls' = 1
         /\ chatSessionRef # NoSession => chatSessionRef' = chatSessionRef
       ]_vars

\* the session of a widget that was opened, served a send that completed and
\* a send that failed, and was closed
C6_Witness ==
  /\ ~isOpen
  /\ createCalls = 1
  /\ chatSessionRef = SessionHandle(1)
  /\ \E i, j \in 1..Len(sends) :
       sends[i].pc = "completed" /\ sends[j].pc = "failed"

(***************************************************************************)
(* C7. An error raised by the creation of the session leaves the message   *)
(* list with one more bot message, the apology, and the in-flight flag     *)
(* false.                                                                  *)
(***************************************************************************)
C7_CreationErrorApologises ==
  (createCalls > 0 /\ chatSessionRef = NoSession) =>
    /\ Len(messages) = 2
    /\ IsApology(messages[2])
    /\ ~isLoading

(***************************************************************************)
(* C8. A call of handleSend with an empty or whitespace-only input, or     *)
(* without a session, changes nothing: not the message list, the input,    *)
(* the in-flight flag, the requests issued or the lead-capture calls.      *)
(***************************************************************************)
C8_BlankSendIsNoOp ==
  [][ (SendCalled /\ (IsBlank(input) \/ chatSessionRef = NoSession)) =>
        /\ messages' = messages
        /\ input' = input
        /\ isLoading' = isLoading
        /\ sends' = sends
        /\ leadLog' = leadLog
    ]_vars

\* Enter was pressed on a whitespace-only input of an open widget
C8_Witness ==
  /\ lastEvent = "enter"
  /\ input = Str_space
  /\ chatSessionRef # NoSession
  /\ messages = << InitMessage >>
  /\ sends = << >>

(***************************************************************************)
(* C9. generateMarketingContent never raises, and when the provider call   *)
(* fails it returns "Unable to generate content at this time. Please try   *)
(* again later.", for every topic and both kinds.                          *)
(***************************************************************************)
C9_FailureString ==
  \A j \in 1..Len(gmc) :
    /\ gmc[j].promise.outcome \in { "pending", "returned" }
    /\ gmc[j].provider = "rejected" =>
         gmc[j].promise =
           [ outcome |-> "returned",
             value |->
               << "Unable to generate content at this time. Please try again later." >> ]

\* a failed provider call for each of the two kinds
C9_Witness ==
  \E j, k \in 1..Len(gmc) :
    /\ gmc[j].provider = "rejected" /\ gmc[j].type = "blog"
    /\ gmc[k].provider = "rejected" /\ gmc[k].type = "service_desc"

(***************************************************************************)
(* C10. The lead-capture callback is called at most once per send, only    *)
(* by a send whose stream was consumed to its end, and never by a send     *)
(* whose request or stream failed.                                         *)
(***************************************************************************)
C10_LeadAtMostOnce ==
  /\ \A k \in 1..Len(leadLog) : leadLog[k].send \in 1..Len(sends)
  /\ \A i \in 1..Len(sends) :
       /\ Cardinality(LeadCalls(i)) <= 1
       /\ sends[i].pc # "completed" => LeadCalls(i) = {}

\* a send with a keyword whose stream failed after a fragment, next to one
\* whose stream completed
C10_Witness ==
  \E i, j \in 1..Len(sends) :
    /\ sends[i].pc = "failed"
    /\ MentionsBooking(sends[i].text)
    /\ sends[i].delivered # << >>
    /\ LeadCalls(i) = {}
    /\ sends[j].pc = "completed"
    /\ Cardinality(LeadCalls(j)) = 1

\* this step is an iteration of the for await loop of send i
ChunkProcessed(i) ==
  /\ i \in 1..Len(sends)
  /\ sends[i].pc = "streaming"
  /\ Len(sends'[i].delivered) = Len(sends[i].delivered) + 1

(***************************************************************************)
(* C11. A streaming update of a send changes no message but the            *)
(* placeholder that send created: not a user message, the greeting, an     *)
(* apology or the placeholder of another send.                             *)
(***************************************************************************)
C11_UpdateOwnPlaceholderOnly ==
  [][ \A i \in 1..Len(sends) :
        ChunkProcessed(i) =>
          /\ Len(messages') = Len(messages)
          /\ \A k \in 1..Len(messages) :
               k # sends[i].botAt => messages'[k] = messages[k]
    ]_vars

(***************************************************************************)
(* C12. The message list only grows at its end, its entries keep their     *)
(* id, sender and order with the greeting first, and the text of an entry  *)
(* changes only while the entry is the placeholder of a send whose stream  *)
(* is being consumed.                                                      *)
(***************************************************************************)
C12_AppendOnlyButPlaceholder ==
  [][ /\ Len(messages') >= Len(messages)
      /\ messages'[1] = InitMessage
      /\ \A k \in 1..Len(messages) :
           /\ messages'[k].id = messages[k].id
           /\ messages'[k].sender = messages[k].sender
           /\ messages'[k].text # messages[k].text =>
                \E i \in 1..Len(sends) :
                  sends[i].pc = "streaming" /\ sends[i].botAt = k
    ]_vars

(***************************************************************************)
(* C13. Right after a non-empty fragment of a stream has been processed,   *)
(* the placeholder of that send reads the concatenation of the fragments   *)
(* delivered so far, in arrival order: after the first, after the second,  *)
(* and so on, not only when the stream has ended.                          *)
(***************************************************************************)
C13_ProgressiveText ==
  [][ \A i \in 1..Len(sends) :
        (ChunkProcessed(i) /\ sends'[i].delivered[Len(sends'[i].delivered)] # << >>) =>
          /\ messages'[sends[i].botAt].sender = "bot"
          /\ messages'[sends[i].botAt].text = Concat(sends'[i].delivered)
    ]_vars

\* a stream still running whose second fragment has been rendered
C13_Witness ==
  \E i \in 1..Len(sends) :
    /\ sends[i].pc = "streaming"
    /\ sends[i].delivered = << << "H", "e", "l" >>, << "l", "o" >> >>
    /\ messages[sends[i].botAt].text = << "H", "e", "l", "l", "o" >>

(***************************************************************************)
(* C14. Every send that passed the guard leaves the sending state: if the  *)
(* provider settles the request and terminates the stream, the send ends,  *)
(* completed or failed, and the step that ends it clears the in-flight     *)
(* flag.                                                                   *)
(***************************************************************************)
C14_SendLeavesSending ==
  /\ \A i \in 1..MaxSends :
       (i \in Pending(sends)) ~>
         (/\ i \in 1..Len(sends)
          /\ sends[i].pc \in { "completed", "failed" }
          /\ ~isLoading)
  /\ [][ \A i \in 1..Len(sends) :
           (sends[i].pc \in PendingPcs /\ sends'[i].pc \notin PendingPcs) =>
             ~isLoading'
       ]_vars

\* the flag cleared by a send that failed and by a send that completed
C14_Witness ==
  /\ ~isLoading
  /\ Pending(sends) = {}
  /\ \E i, j \in 1..Len(sends) :
       sends[i].pc = "failed" /\ sends[j].pc = "completed"

(***************************************************************************)
(* C15. When sendMessageStream rejects, no placeholder is created: the     *)
(* step appends exactly one apology message right after the user message   *)
(* of that send and clears the in-flight flag.                             *)
(***************************************************************************)
C15_RejectedRequestApologises ==
  [][ \A i \in 1..Len(sends) :
        (sends[i].pc = "awaitResponse" /\ sends'[i].pc = "failed") =>
          /\ sends'[i].botAt = 0
          /\ messages' = Append(messages, messages'[Len(messages')])
          /\ IsApology(messages'[Len(messages')])
          /\ sends[i].userAt = Len(messages)
          /\ ~isLoading'
    ]_vars

(***************************************************************************)
(* C16. A fragment whose text is empty or absent leaves the accumulator    *)
(* and the message list unchanged, and a stream of only such fragments     *)
(* finishes with the text of its placeholder still empty.                  *)
(***************************************************************************)
C16_EmptyFragmentIsNoOp ==
  [][ \A i \in 1..Len(sends) :
        /\ (ChunkProcessed(i)
              /\ sends'[i].delivered[Len(sends'[i].delivered)] = Str_empty) =>
             /\ messages' = messages
             /\ sends'[i].botResponseText = sends[i].botResponseText
        /\ (/\ sends[i].pc = "streaming"
            /\ sends'[i].pc \notin PendingPcs
            /\ sends[i].delivered # << >>
            /\ \A k \in 1..Len(sends[i].delivered) :
                 sends[i].delivered[k] = Str_empty) =>
             messages'[sends[i].botAt].text = Str_empty
    ]_vars

(***************************************************************************)
(* C17. A toggle while a send is in flight leaves the message list, the    *)
(* in-flight flag, the session handle and the sends unchanged, and a       *)
(* fragment with text that arrives while the widget is closed is still     *)
(* applied to the placeholder.                                             *)
(***************************************************************************)
C17_ToggleDoesNotCancel ==
  [][ /\ (isOpen' # isOpen /\ Pending(sends) # {}) =>
           /\ messages' = messages
           /\ isLoading' = isLoading
           /\ chatSessionRef' = chatSessionRef
           /\ sends' = sends
      /\ \A i \in 1..Len(sends) :
           (/\ ~isOpen
            /\ ChunkProcessed(i)
            /\ sends'[i].delivered[Len(sends'[i].delivered)] # Str_empty) =>
             messages'[sends[i].botAt].text = Concat(sends'[i].delivered)
    ]_vars

\* a stream begun while open, its two fragments applied after closing
C17_Witness ==
  /\ ~isOpen
  /\ isLoading
  /\ \E i \in 1..Len(sends) :
       /\ sends[i].pc = "streaming"
       /\ sends[i].delivered = << Str_Hel, Str_lo >>
       /\ messages[sends[i].botAt].text = Str_Hel \o Str_lo
       /\ Len(messages) = sends[i].botAt

(***************************************************************************)
(* C19. In every reachable state, if the in-flight flag is false then no   *)
(* send is awaiting its response or consuming its stream, so no            *)
(* placeholder can still be updated.                                       *)
(***************************************************************************)
C19_IdleMeansNoStream ==
  ~isLoading => Pending(sends) = {}

(***************************************************************************)
(* C18. When the provider call succeeds, generateMarketingContent returns  *)
(* the text of the response unchanged, for every response text including   *)
(* the empty one.                                                          *)
(***************************************************************************)
C18_ReturnsProviderText ==
  \A j \in 1..Len(gmc) :
    (gmc[j].provider = "resolved" /\ gmc[j].response.hasText) =>
      gmc[j].promise = [ outcome |-> "returned", value |-> gmc[j].response.text ]

(***************************************************************************)
(* C18, amended. When the provider call succeeds with a non-empty text,    *)
(* generateMarketingContent returns that text unchanged; when it succeeds  *)
(* with an empty or absent text it returns "Content generation failed.".   *)
(***************************************************************************)
C18_ReturnsTextOrFallback ==
  \A j \in 1..Len(gmc) :
    gmc[j].provider = "resolved" =>
      gmc[j].promise =
        [ outcome |-> "returned",
          value |->
            IF gmc[j].response.hasText /\ Len(gmc[j].response.text) > 0
            THEN gmc[j].response.text
            ELSE << "Content generation failed." >> ]

\* one call answered with a text, one with the empty text
C18_Witness ==
  \E j, k \in 1..Len(gmc) :
    /\ gmc[j].provider = "resolved"
    /\ gmc[j].response = [hasText |-> TRUE, text |-> Str_Hel]
    /\ gmc[j].promise.value = Str_Hel
    /\ gmc[k].provider = "resolved"
    /\ gmc[k].response = [hasText |-> TRUE, text |-> Str_empty]
    /\ gmc[k].promise.value = GenerationFailedText

====
